---- MODULE Spec2Model ----
(***************************************************************************)
(* Model of the flag library (src/flag/__init__.py): typed flags that      *)
(* register themselves in a process-wide registry, and parse(), which      *)
(* walks sys.argv, assigns flag values and enforces mandatory flags.       *)
(*                                                                         *)
(* Python strings are sequences of one-character strings, so that split,   *)
(* startswith, replace and the int/float/bool/str conversions are computed *)
(* the way the code computes them.                                         *)
(***************************************************************************)
EXTENDS Integers, Sequences, FiniteSets, TLC

(***************************************************************************)
(* Bounds                                                                  *)
(***************************************************************************)
\* largest number of flag constructions before parse()
MaxFlags == 2
\* largest number of command-line tokens after the program name
MaxArgs == 2
\* largest magnitude of the integers an IntFlag is compared with
MaxCmp == 2

(***************************************************************************)
(* Python str operations used by the library                               *)
(***************************************************************************)
\* c in s
Contains(s, c) == \E i \in 1..Len(s) : s[i] = c

\* s.startswith(p)
StartsWith(s, p) == /\ Len(s) >= Len(p)
                    /\ \A i \in 1..Len(p) : s[i] = p[i]

\* s.replace(c, '')
RemoveChar(s, c) == SelectSeq(s, LAMBDA x : x # c)

\* index of the first c in s at or after position i, or 0
RECURSIVE FirstIndex(_, _, _)
FirstIndex(s, c, i) ==
    IF i > Len(s) THEN 0
    ELSE IF s[i] = c THEN i
    ELSE FirstIndex(s, c, i + 1)

\* s.split(c): the list of the pieces between every occurrence of c
RECURSIVE Split(_, _)
Split(s, c) ==
    LET k == FirstIndex(s, c, 1)
    IN  IF k = 0 THEN <<s>>
        ELSE <<SubSeq(s, 1, k - 1)>> \o Split(SubSeq(s, k + 1, Len(s)), c)

(***************************************************************************)
(* Python values: t is the type, i the number (mantissa), e the number of  *)
(* fractional decimal digits of a float, s the text of a str               *)
(***************************************************************************)
PyInt(n) == [t |-> "int", i |-> n, e |-> 0, s |-> <<>>]
PyBool(b) == [t |-> "bool", i |-> IF b THEN 1 ELSE 0, e |-> 0, s |-> <<>>]
PyStr(s) == [t |-> "str", i |-> 0, e |-> 0, s |-> s]

\* a float mantissa/exponent pair without trailing fractional zeros
RECURSIVE Normalise(_, _)
Normalise(m, e) ==
    IF e > 0 /\ m % 10 = 0 THEN Normalise(m \div 10, e - 1) ELSE <<m, e>>

PyFloat(m, e) ==
    LET n == Normalise(m, e)
    IN  [t |-> "float", i |-> n[1], e |-> n[2], s |-> <<>>]

\* float('nan'): a float that carries its text instead of a number
PyNaN == [t |-> "float", i |-> 0, e |-> 0, s |-> <<"n", "a", "n">>]
IsNaN(v) == v.t = "float" /\ v.s # <<>>

IsNumber(v) == v.t \in {"int", "bool", "float"}

\* a == b; nan equals nothing, itself included
PyEq(a, b) ==
    IF IsNaN(a) \/ IsNaN(b) THEN FALSE
    ELSE IF IsNumber(a) /\ IsNumber(b) THEN a.i = b.i /\ a.e = b.e
    ELSE IF a.t = "str" /\ b.t = "str" THEN a.s = b.s
    ELSE FALSE

\* a type check that accepts every value
IsInstance_any(v, type) == TRUE

\* isinstance(value, _type); bool is a subclass of int
IsInstance(v, type) ==
    \/ v.t = type
    \/ v.t = "bool" /\ type = "int"

(***************************************************************************)
(* Conversions: self.type(value).  A result is [ok, val]; ok = FALSE is    *)
(* the ValueError the setter catches.                                      *)
(***************************************************************************)
Digits == {"0", "1", "2", "3", "4", "5", "6", "7", "8", "9"}

DigitVal(c) ==
    CASE c = "0" -> 0 [] c = "1" -> 1 [] c = "2" -> 2 [] c = "3" -> 3
      [] c = "4" -> 4 [] c = "5" -> 5 [] c = "6" -> 6 [] c = "7" -> 7
      [] c = "8" -> 8 [] c = "9" -> 9

AllDigits(s) == \A k \in 1..Len(s) : s[k] \in Digits

\* the number written by a string of decimal digits
RECURSIVE DigitsVal(_)
DigitsVal(s) ==
    IF s = <<>> THEN 0
    ELSE 10 * DigitsVal(SubSeq(s, 1, Len(s) - 1)) + DigitVal(s[Len(s)])

HasSign(s) == Len(s) > 0 /\ s[1] \in {"-", "+"}
Unsigned(s) == IF HasSign(s) THEN Tail(s) ELSE s
SignOf(s) == IF Len(s) > 0 /\ s[1] = "-" THEN -1 ELSE 1

ConvFail == [ok |-> FALSE, val |-> PyInt(0)]
ConvOk(v) == [ok |-> TRUE, val |-> v]

\* int(value): an optional sign and one or more decimal digits
IntOf(v) ==
    IF v.t \in {"int", "bool"} THEN ConvOk(PyInt(v.i))
    ELSE IF IsNaN(v) THEN ConvFail
    ELSE IF v.t = "float" THEN ConvOk(PyInt(v.i \div (10 ^ v.e)))
    ELSE LET u == Unsigned(v.s)
         IN  IF Len(u) > 0 /\ AllDigits(u)
             THEN ConvOk(PyInt(SignOf(v.s) * DigitsVal(u)))
             ELSE ConvFail

\* float(value): an optional sign, then nan, or digits and an optional
\* point and digits
FloatOf(v) ==
    IF IsNaN(v) THEN ConvOk(v)
    ELSE IF v.t \in {"int", "bool", "float"} THEN ConvOk(PyFloat(v.i, v.e))
    ELSE IF Unsigned(v.s) = <<"n", "a", "n">> THEN ConvOk(PyNaN)
    ELSE LET u == Unsigned(v.s)
             k == FirstIndex(u, ".", 1)
             whole == IF k = 0 THEN u ELSE SubSeq(u, 1, k - 1)
             frac == IF k = 0 THEN <<>> ELSE SubSeq(u, k + 1, Len(u))
         IN  IF AllDigits(whole) /\ AllDigits(frac) /\ Len(whole) + Len(frac) > 0
             THEN ConvOk(PyFloat(SignOf(v.s) * DigitsVal(whole \o frac), Len(frac)))
             ELSE ConvFail

DigitChar(d) ==
    CASE d = 0 -> "0" [] d = 1 -> "1" [] d = 2 -> "2" [] d = 3 -> "3"
      [] d = 4 -> "4" [] d = 5 -> "5" [] d = 6 -> "6" [] d = 7 -> "7"
      [] d = 8 -> "8" [] d = 9 -> "9"

\* the decimal digits of a natural number
RECURSIVE NatStr(_)
NatStr(n) ==
    IF n < 10 THEN <<DigitChar(n)>> ELSE NatStr(n \div 10) \o <<DigitChar(n % 10)>>

\* the last k decimal digits of a natural number
RECURSIVE LastDigits(_, _)
LastDigits(n, k) ==
    IF k = 0 THEN <<>> ELSE LastDigits(n \div 10, k - 1) \o <<DigitChar(n % 10)>>

Abs(n) == IF n < 0 THEN -n ELSE n
SignStr(n) == IF n < 0 THEN <<"-">> ELSE <<>>

\* str(value): the text itself; str(True) is 'True'; str(1.5) is '1.5'
StrOf(v) ==
    CASE v.t = "str" -> ConvOk(v)
      [] v.t = "bool" -> ConvOk(PyStr(IF v.i = 1 THEN <<"T", "r", "u", "e">>
                                                 ELSE <<"F", "a", "l", "s", "e">>))
      [] v.t = "int" -> ConvOk(PyStr(SignStr(v.i) \o NatStr(Abs(v.i))))
      [] IsNaN(v) -> ConvOk(PyStr(v.s))
      [] v.t = "float" /\ ~IsNaN(v) ->
            ConvOk(PyStr(SignStr(v.i) \o NatStr(Abs(v.i) \div (10 ^ v.e)) \o <<".">>
                         \o (IF v.e = 0 THEN <<"0">> ELSE LastDigits(Abs(v.i), v.e))))

\* bool(value): a str is true unless it is empty
BoolOf(v) ==
    IF v.t = "str" THEN ConvOk(PyBool(Len(v.s) > 0))
    ELSE ConvOk(PyBool(IsNaN(v) \/ v.i # 0))

\* self.type(value)
Convert(type, v) ==
    CASE type = "int" -> IntOf(v)
      [] type = "float" -> FloatOf(v)
      [] type = "str" -> StrOf(v)
      [] type = "bool" -> BoolOf(v)

(***************************************************************************)
(* Inputs: the constructor arguments and the command lines explored        *)
(***************************************************************************)
Prog == <<"p">>

\* flag names offered to each constructor: n and m can be named on the
\* command line, a-b has an interior dash
IntNames == {<<"n">>, <<"a", "-", "b">>}
FloatNames == {<<"n">>}
StrNames == {<<"n">>, <<"m">>}
BoolNames == {<<"n">>}

\* descriptions: one placeholder 'P', two placeholders 'A' and 'B'
Descs == {<<"'", "P", "'">>, <<"'", "A", "'", "'", "B", "'">>}

\* defaults offered to each constructor: of the flag's type, and one not
IntDefaults == {PyInt(0), PyStr(<<"x">>)}
FloatDefaults == {PyFloat(0, 0), PyNaN, PyInt(0)}
StrDefaults == {PyStr(<<>>), PyInt(0)}

\* raw values: an integer, a non-number, a text holding '='
RawValues == {<<"5">>, <<"x">>, <<"5", "=", "5">>}

\* raw values that are tokens of their own
ValueTokens == {<<"5">>}

Dashes(d) == [k \in 1..d |-> "-"]

\* tokens: n=5 after zero to two dashes; n alone after one or two dashes;
\* --n= with an empty value; -n= and each raw value; a token naming m; a
\* token naming the dashed flag; raw values on their own
Tokens ==
    {Dashes(d) \o <<"n", "=", "5">> : d \in 0..2}
    \cup {Dashes(d) \o <<"n">> : d \in 1..2}
    \cup {<<"-", "-", "n", "=">>}
    \cup {<<"-", "n", "=">> \o v : v \in RawValues}
    \cup {<<"-", "m", "=", "5">>}
    \cup {<<"-", "a", "-", "b", "=", "5">>}
    \cup ValueTokens

\* the command lines of at most n tokens
RECURSIVE ArgLists(_)
ArgLists(n) ==
    IF n = 0 THEN {<<>>}
    ELSE LET shorter == ArgLists(n - 1)
         IN  shorter \cup {Append(a, t) : a \in {x \in shorter : Len(x) = n - 1},
                                           t \in Tokens}

(***************************************************************************)
(* State                                                                   *)
(***************************************************************************)
VARIABLES
    flags_registered,       \* _flags_registered, in insertion order
    unsatisfied_mandatory,  \* the keys of _unsatisfied_mandatory, in insertion order
    sys_argv,               \* sys.argv as parse() read it: the program name and the tokens
    flags_provided,         \* parse()'s flags_provided list
    assigns,                \* history: every assignment parse() made, in order
    out,                    \* what the process wrote, and how it ended
    pc                      \* "startup", "parsed", "exited" or "crashed"

vars == <<flags_registered, unsatisfied_mandatory, sys_argv, flags_provided,
          assigns, out, pc>>

\* the keys of _flags_registered, in insertion order
Names(flags) == [k \in 1..Len(flags) |-> flags[k].name]

\* name in _flags_registered
Registered(flags, name) == \E k \in 1..Len(flags) : flags[k].name = name

\* the position of _flags_registered[name]
IndexOfFlag(flags, name) == CHOOSE k \in 1..Len(flags) : flags[k].name = name

\* _flags_registered[name]
Lookup(flags, name) == flags[IndexOfFlag(flags, name)]

\* is_default: self.value == self.default
is_default(f) == PyEq(f.value, f.default)

(***************************************************************************)
(* Output: description(), print_defaults(), _write_exc()                   *)
(***************************************************************************)
Event(ev, what, arg, lines) == [ev |-> ev, what |-> what, arg |-> arg, lines |-> lines]

\* the two lines description() prints for a flag
description(f) ==
    << IF f.cls = "BoolFlag" THEN <<"-", "-">> \o f.name
       ELSE <<"-">> \o f.name \o <<" ">> \o f.arg_name,
       <<" ", " ", " ", " ">> \o f.desc
          \o (IF f.mandatory THEN <<" ", "(", "m", "a", "n", "d", "a", "t", "o", "r", "y", ")">>
              ELSE <<>>) >>

RECURSIVE Descriptions(_)
Descriptions(flags) ==
    IF flags = <<>> THEN <<>>
    ELSE description(Head(flags)) \o Descriptions(Tail(flags))

\* os.path.basename(sys.argv[0])
Basename(path) ==
    LET slashes == {k \in 1..Len(path) : path[k] = "/"}
    IN  IF slashes = {} THEN path
        ELSE SubSeq(path, (CHOOSE k \in slashes : \A j \in slashes : j <= k) + 1, Len(path))

\* print_defaults(): the header, then every registered flag's description
print_defaults(flags) ==
    Event("usage", "", Basename(Prog),
          << <<"U", "s", "a", "g", "e", " ", "o", "f", " ">> \o Basename(Prog) \o <<":">> >>
             \o Descriptions(flags))

\* _write_exc(): the message on stderr, the usage text, sys.exit(1)
write_exc(flags, what, arg) ==
    << Event("stderr", what, arg, <<>>),
       print_defaults(flags),
       Event("exit", "1", <<>>, <<>>) >>

\* an exception nothing catches: the interpreter prints the traceback and
\* the process ends with status 1
uncaught(exc) ==
    << Event("traceback", exc, <<>>, <<>>),
       Event("exit", "1", <<>>, <<>>) >>

(***************************************************************************)
(* Flag construction: _Flag.__init__ and _register_flag                    *)
(***************************************************************************)
\* the positions of the quote characters of a description
QuotePositions(desc) == {k \in 1..Len(desc) : desc[k] = "'"}

\* the k-th smallest element of a set of positions
RECURSIVE KthSmallest(_, _)
KthSmallest(S, k) ==
    LET least == CHOOSE x \in S : \A y \in S : x <= y
    IN  IF k = 1 THEN least ELSE KthSmallest(S \ {least}, k - 1)

\* re.findall(r"'(.*?)'", desc): the texts between the 1st and 2nd quote,
\* the 3rd and 4th, ...
Matches(desc) ==
    LET q == QuotePositions(desc)
    IN  [k \in 1..(Cardinality(q) \div 2) |->
            SubSeq(desc, KthSmallest(q, 2 * k - 1) + 1, KthSmallest(q, 2 * k) - 1)]

\* _get_arg_name(): [ok, arg_name]; ok = FALSE is the names-conflict error
get_arg_name(desc) ==
    LET matches == Matches(desc)
    IN  IF Len(matches) = 0 THEN [ok |-> TRUE, arg_name |-> <<>>]
        ELSE IF Len(matches) > 1 THEN [ok |-> FALSE, arg_name |-> <<>>]
        ELSE [ok |-> TRUE, arg_name |-> RemoveChar(matches[1], "'")]

\* the flag object __init__ builds
NewFlag(cls, name, default, type, desc, mandatory) ==
    LET arg_name == get_arg_name(desc).arg_name
    IN  [cls |-> cls, name |-> name, default |-> default, type |-> type,
         desc |-> IF arg_name # <<>> THEN RemoveChar(desc, "'") ELSE desc,
         mandatory |-> mandatory, arg_name |-> arg_name, value |-> default]

\* _register_flag() without its membership test
is_duplicate_never(flags, flag) == FALSE

\* _register_flag(): flag.name in _flags_registered
is_duplicate(flags, flag) == Registered(flags, flag.name)

\* _register_flag(): the registry after the insertion
register_flag(flags, flag) == Append(flags, flag)

\* _register_flag() recording every flag as mandatory
register_mandatory_always(unsat, flag) == Append(unsat, flag.name)

\* _register_flag() forgetting to record a mandatory flag
register_mandatory_forgets(unsat, flag) == unsat

\* _register_flag(): _unsatisfied_mandatory after the insertion
register_mandatory(unsat, flag) ==
    IF flag.mandatory THEN Append(unsat, flag.name) ELSE unsat

\* _Flag.__init__(name, default, flag_type, desc, mandatory)
Construct(cls, name, default, type, desc, mandatory) ==
    /\ pc = "startup"
    /\ Len(flags_registered) < MaxFlags
    /\ LET flag == NewFlag(cls, name, default, type, desc, mandatory)
           fail(what, arg) ==
               /\ out' = out \o write_exc(flags_registered, what, arg)
               /\ pc' = "exited"
               /\ UNCHANGED <<flags_registered, unsatisfied_mandatory>>
       IN  IF ~IsInstance(default, type) THEN fail("TypeMismatch", name)
           ELSE IF ~get_arg_name(desc).ok THEN fail("AmbiguousPlaceholder", desc)
           ELSE IF is_duplicate(flags_registered, flag) THEN fail("DuplicateFlag", name)
           ELSE /\ flags_registered' = register_flag(flags_registered, flag)
                /\ unsatisfied_mandatory' = register_mandatory(unsatisfied_mandatory, flag)
                /\ UNCHANGED <<out, pc>>
    /\ UNCHANGED <<sys_argv, flags_provided, assigns>>

IntFlag ==
    \E name \in IntNames, default \in IntDefaults, desc \in Descs, mandatory \in BOOLEAN :
        Construct("IntFlag", name, default, "int", desc, mandatory)

FloatFlag ==
    \E name \in FloatNames, default \in FloatDefaults, desc \in Descs, mandatory \in BOOLEAN :
        Construct("FloatFlag", name, default, "float", desc, mandatory)

StrFlag ==
    \E name \in StrNames, default \in StrDefaults, desc \in Descs, mandatory \in BOOLEAN :
        Construct("StrFlag", name, default, "str", desc, mandatory)

BoolFlag ==
    \E name \in BoolNames, desc \in Descs :
        Construct("BoolFlag", name, PyBool(FALSE), "bool", desc, FALSE)

(***************************************************************************)
(* IntFlag comparisons                                                     *)
(***************************************************************************)
\* IntFlag.__eq__: self.value == int(o)
IntFlag_eq(f, o) == f.value.i = IntOf(o).val.i

\* IntFlag.__ne__: self.value != int(o)
IntFlag_ne(f, o) == f.value.i # IntOf(o).val.i

\* a less-than that admits equality
IntFlag_lt_inclusive(f, o) == f.value.i <= IntOf(o).val.i

\* IntFlag.__lt__: self.value < int(o)
IntFlag_lt(f, o) == f.value.i < IntOf(o).val.i

\* IntFlag.__le__: self.value <= int(o)
IntFlag_le(f, o) == f.value.i <= IntOf(o).val.i

\* IntFlag.__gt__: self.value > int(o)
IntFlag_gt(f, o) == f.value.i > IntOf(o).val.i

\* IntFlag.__ge__: self.value >= int(o)
IntFlag_ge(f, o) == f.value.i >= IntOf(o).val.i

(***************************************************************************)
(* parse()                                                                 *)
(***************************************************************************)
\* arg.split('='), which parse() unpacks into real_name and value
SplitToken(arg) == Split(arg, "=")

\* reading the value without removing it from argv
PopValue_peeks(rest) == [value |-> Head(rest), rest |-> rest]

\* value = argv.pop(0): the next token, and the tokens left
PopValue(rest) == [value |-> Head(rest), rest |-> Tail(rest)]

\* how one token is read: real_name, value and the tokens left, or the way
\* the reading fails

ReadToken(arg, rest) ==
    IF Contains(arg, "=")
    THEN LET parts == SplitToken(arg)
         IN  IF Len(parts) # 2
             THEN [how |-> "crash", what |-> "ValueError", real_name |-> <<>>,
                   value |-> PyBool(FALSE), rest |-> rest]
             ELSE [how |-> "ok", what |-> "", real_name |-> parts[1],
                   value |-> PyStr(parts[2]), rest |-> rest]
    ELSE IF StartsWith(arg, <<"-", "-">>)
    THEN [how |-> "ok", what |-> "", real_name |-> arg, value |-> PyBool(TRUE),
          rest |-> rest]
    ELSE IF StartsWith(arg, <<"-">>)
    THEN IF rest = <<>>
         THEN [how |-> "crash", what |-> "IndexError", real_name |-> arg,
               value |-> PyBool(FALSE), rest |-> rest]
         ELSE [how |-> "ok", what |-> "", real_name |-> arg,
               value |-> PyStr(PopValue(rest).value), rest |-> PopValue(rest).rest]
    ELSE [how |-> "exit", what |-> "InvalidFormat", real_name |-> <<>>,
          value |-> PyBool(FALSE), rest |-> rest]

\* the value setter: the flag with its value replaced
SetValue(f, conv) == [f EXCEPT !.value = conv]

\* a setter that stores the raw value before converting it
value_setter_stores_first(f, value) ==
    LET conv == Convert(f.type, value)
    IN  IF conv.ok THEN [ok |-> TRUE, flag |-> SetValue(f, conv.val)]
        ELSE [ok |-> FALSE, flag |-> SetValue(f, value)]

\* the value setter as a whole: the conversion, then either the error (the
\* flag as it was) or the assignment
value_setter(f, value) ==
    LET conv == Convert(f.type, value)
    IN  IF conv.ok THEN [ok |-> TRUE, flag |-> SetValue(f, conv.val)]
        ELSE [ok |-> FALSE, flag |-> f]

\* stripping only the leading dashes of real_name
RECURSIVE resolve_name_lstrip(_)
resolve_name_lstrip(real_name) ==
    IF real_name # <<>> /\ Head(real_name) = "-"
    THEN resolve_name_lstrip(Tail(real_name))
    ELSE real_name

\* name = real_name.replace('-', '')
resolve_name(real_name) == RemoveChar(real_name, "-")

\* naming the last unsatisfied flag instead of the first
first_unsatisfied_last(left) == left[Len(left)]

\* unsatisfied[0].name
first_unsatisfied(left) == left[1]

\* the while loop of parse(): st is [flags, provided, assigns]; argv the
\* tokens still to read; pos the position in sys.argv of the next token.
\* The result adds how the loop ended and what it wrote.
RECURSIVE ParseLoop(_, _, _)
ParseLoop(st, argv, pos) ==
    IF argv = <<>>
    THEN [end |-> "ok", flags |-> st.flags, provided |-> st.provided,
          assigns |-> st.assigns, out |-> <<>>]
    ELSE LET arg == Head(argv)
             r == ReadToken(arg, Tail(argv))
             name == resolve_name(r.real_name)
             stopWith(flags, end, events) ==
                 [end |-> end, flags |-> flags, provided |-> st.provided,
                  assigns |-> st.assigns, out |-> events]
             stop(end, events) == stopWith(st.flags, end, events)
             exit(what, a) == stop("exited", write_exc(st.flags, what, a))
         IN  IF r.how = "crash" THEN stop("crashed", uncaught(r.what))
             ELSE IF r.how = "exit" THEN exit(r.what, arg)
             ELSE IF ~Registered(st.flags, name) THEN exit("UnknownFlag", name)
             ELSE LET k == IndexOfFlag(st.flags, name)
                      matched_flag == st.flags[k]
                      set == value_setter(matched_flag, r.value)
                      after == [st.flags EXCEPT ![k] = set.flag]
                  IN  IF matched_flag.cls = "BoolFlag"
                         /\ ~StartsWith(r.real_name, <<"-", "-">>)
                      THEN exit("BooleanFormatRequired", name)
                      ELSE IF ~set.ok
                      THEN stopWith(after, "exited",
                                    write_exc(after, "ConversionFailure", name))
                      ELSE ParseLoop(
                              [flags |-> after,
                               provided |-> Append(st.provided, name),
                               assigns |-> Append(st.assigns,
                                                  [name |-> name, pos |-> pos,
                                                   used |-> Len(argv) - Len(r.rest),
                                                   token |-> arg, raw |-> r.value,
                                                   value |-> set.flag.value])],
                              r.rest, pos + (Len(argv) - Len(r.rest)))

\* popping only the name provided last
PopProvided_last_only(unsat, provided) ==
    SelectSeq(unsat, LAMBDA nm : provided = <<>> \/ provided[Len(provided)] # nm)

\* _unsatisfied_mandatory after popping every provided name
PopProvided(unsat, provided) ==
    SelectSeq(unsat, LAMBDA nm : ~\E k \in 1..Len(provided) : provided[k] = nm)

\* parse(): the whole call
ParseResult(flags, unsat, sysargv) ==
    LET loop == ParseLoop([flags |-> flags, provided |-> <<>>, assigns |-> <<>>],
                          Tail(sysargv), 1)
        left == PopProvided(unsat, loop.provided)
    IN  IF loop.end # "ok"
        THEN [end |-> loop.end, flags |-> loop.flags, unsat |-> unsat,
              provided |-> loop.provided, assigns |-> loop.assigns, out |-> loop.out]
        ELSE IF Len(left) # 0
        THEN [end |-> "exited", flags |-> loop.flags, unsat |-> left,
              provided |-> loop.provided, assigns |-> loop.assigns,
              out |-> write_exc(loop.flags, "MissingMandatoryFlag", first_unsatisfied(left))]
        ELSE [end |-> "parsed", flags |-> loop.flags, unsat |-> left,
              provided |-> loop.provided, assigns |-> loop.assigns, out |-> <<>>]

parse ==
    /\ pc = "startup"
    /\ \E args \in ArgLists(MaxArgs) : sys_argv' = <<Prog>> \o args
    /\ \E r \in {ParseResult(flags_registered, unsatisfied_mandatory, sys_argv')} :
           /\ flags_registered' = r.flags
           /\ unsatisfied_mandatory' = r.unsat
           /\ flags_provided' = r.provided
           /\ assigns' = r.assigns
           /\ out' = out \o r.out
           /\ pc' = r.end

(***************************************************************************)
(* Specification                                                           *)
(***************************************************************************)
Init ==
    /\ flags_registered = <<>>
    /\ unsatisfied_mandatory = <<>>
    /\ sys_argv = <<Prog>>
    /\ flags_provided = <<>>
    /\ assigns = <<>>
    /\ out = <<>>
    /\ pc = "startup"

Next == IntFlag \/ FloatFlag \/ StrFlag \/ BoolFlag \/ parse

Spec == Init /\ [][Next]_vars

(***************************************************************************)
(* Vocabulary of the properties                                            *)
(***************************************************************************)
\* the tokens parse() was given
Args == Tail(sys_argv)

ConstructionErrors == {"TypeMismatch", "AmbiguousPlaceholder", "DuplicateFlag"}

\* the error _write_exc reported, and what it names
ErrKind == IF pc = "exited" THEN out[Len(out) - 2].what ELSE "none"
ErrArg == IF pc = "exited" THEN out[Len(out) - 2].arg ELSE <<>>

\* parse() was called and has ended
ParseRan ==
    \/ pc \in {"parsed", "crashed"}
    \/ pc = "exited" /\ ErrKind \notin ConstructionErrors

\* the position of the first token parse() did not get past, Len(Args) + 1
\* when every token was read and assigned
StopPos ==
    IF assigns = <<>> THEN 1
    ELSE assigns[Len(assigns)].pos + assigns[Len(assigns)].used

Stopped == ParseRan /\ StopPos <= Len(Args)
StopTok == Args[StopPos]

\* the text of a token before its first '=', and after it
BeforeEq(tok) ==
    LET k == FirstIndex(tok, "=", 1)
    IN  IF k = 0 THEN tok ELSE SubSeq(tok, 1, k - 1)
AfterEq(tok) ==
    LET k == FirstIndex(tok, "=", 1)
    IN  SubSeq(tok, k + 1, Len(tok))

\* the flag name a token resolves to: the text before the first '='
\* without its dashes
Resolves(tok) == RemoveChar(BeforeEq(tok), "-")

\* the three forms that carry a value, and the bare form
DashEq(nm, v) == <<"-">> \o nm \o <<"=">> \o v
DashDashEq(nm, v) == <<"-", "-">> \o nm \o <<"=">> \o v
Dash(nm) == <<"-">> \o nm
Bare(nm) == <<"-", "-">> \o nm

\* a single-dash token without '=': the form that takes the next token
TakesNext(tok) ==
    /\ ~Contains(tok, "=")
    /\ StartsWith(tok, <<"-">>)
    /\ ~StartsWith(tok, <<"-", "-">>)

\* the positions of Args read as flags, going by the grammar: a token that
\* takes the next one as its value is followed by a value position
RECURSIVE FlagPositionsFrom(_, _)
FlagPositionsFrom(args, p) ==
    IF p > Len(args) THEN {}
    ELSE {p} \cup FlagPositionsFrom(args, IF TakesNext(args[p]) THEN p + 2 ELSE p + 1)
FlagPositions == FlagPositionsFrom(Args, 1)

FlagIndexes == 1..Len(flags_registered)
AssignIndexes == 1..Len(assigns)
IsBool(nm) == Lookup(flags_registered, nm).cls = "BoolFlag"

\* the registry as it was when parse() was called: parse() is the only
\* operation that changes a value, and it runs once
FlagsBefore == [k \in FlagIndexes |->
                   [flags_registered[k] EXCEPT !.value = flags_registered[k].default]]
UnsatBefore == Names(SelectSeq(FlagsBefore, LAMBDA f : f.mandatory))

\* what parse() does: how it ends, the error, and every flag's value
Outcome(r) ==
    [end |-> r.end,
     err |-> IF r.end = "exited" THEN r.out[1].what ELSE "none",
     values |-> [k \in 1..Len(r.flags) |-> r.flags[k].value]]
ActualOutcome ==
    [end |-> pc, err |-> ErrKind,
     values |-> [k \in FlagIndexes |-> flags_registered[k].value]]
OutcomeOf(args) == Outcome(ParseResult(FlagsBefore, UnsatBefore, <<Prog>> \o args))

(***************************************************************************)
(* C1: when parse() returns, every mandatory flag was named by a token;    *)
(* when some mandatory flag is named by no token and every token was read  *)
(* without a failure, parse() fails with MissingMandatoryFlag naming such  *)
(* a flag.                                                                 *)
(***************************************************************************)
NamedByToken(nm) == \E p \in 1..Len(Args) : Resolves(Args[p]) = nm

UnnamedMandatory ==
    {k \in FlagIndexes : flags_registered[k].mandatory
                         /\ ~NamedByToken(flags_registered[k].name)}

C1_MandatoryEnforced ==
    ParseRan =>
        /\ pc = "parsed" =>
              \A k \in FlagIndexes :
                  flags_registered[k].mandatory => NamedByToken(flags_registered[k].name)
        /\ (UnnamedMandatory # {} /\ ~Stopped) =>
              /\ pc = "exited"
              /\ ErrKind = "MissingMandatoryFlag"
              /\ \E k \in FlagIndexes :
                     /\ flags_registered[k].mandatory
                     /\ ErrArg = flags_registered[k].name
                     /\ \A p \in FlagPositions : Resolves(Args[p]) # ErrArg

\* parse() returned with a mandatory flag registered next to another flag
C1_Witness ==
    /\ pc = "parsed"
    /\ Len(flags_registered) = 2
    /\ \E k \in FlagIndexes : flags_registered[k].mandatory

(***************************************************************************)
(* C2: the bare token --name is the only form that assigns a boolean flag; *)
(* a token of any other form that resolves to a registered boolean flag    *)
(* makes parse() fail with BooleanFormatRequired.                          *)
(***************************************************************************)
\* the token parse() stopped at was read, and its name is a registered flag
StopTokResolved ==
    /\ Stopped
    /\ ReadToken(StopTok, SubSeq(Args, StopPos + 1, Len(Args))).how = "ok"
    /\ Registered(flags_registered, Resolves(StopTok))

C2_BoolOnlyBare ==
    ParseRan =>
        /\ \A k \in AssignIndexes :
              IsBool(assigns[k].name) => assigns[k].token = Bare(assigns[k].name)
        /\ (StopTokResolved /\ IsBool(Resolves(StopTok))
                /\ StopTok # Bare(Resolves(StopTok))) =>
              ErrKind = "BooleanFormatRequired"

(***************************************************************************)
(* C3: for a registered non-boolean flag n and a raw value v convertible   *)
(* to its type, parsing the single token -n=v stores the converted v in    *)
(* that flag (is_default false when it differs from the default) and       *)
(* leaves every other flag alone.                                          *)
(***************************************************************************)
C3_NameIsKey ==
    (ParseRan /\ Len(Args) = 1) =>
        \A k \in FlagIndexes, v \in RawValues :
            LET f == flags_registered[k]
                conv == Convert(f.type, PyStr(v))
            IN  (f.cls # "BoolFlag" /\ Args[1] = DashEq(f.name, v) /\ conv.ok) =>
                    /\ f.value = conv.val
                    /\ ~PyEq(conv.val, f.default) => ~is_default(f)
                    /\ \A j \in FlagIndexes \ {k} :
                          flags_registered[j].value = flags_registered[j].default

(***************************************************************************)
(* C4: for a non-boolean flag n and a raw value v the argument lists       *)
(* <<-n, v>>, <<-n=v>> and <<--n=v>> have the same outcome, and when they  *)
(* succeed the flag holds what the setter makes of v; for a boolean flag   *)
(* --n stores what the setter makes of True.                               *)
(***************************************************************************)
C4_FormsAgree ==
    ParseRan =>
        \A k \in FlagIndexes :
            LET f == flags_registered[k]
            IN  /\ f.cls # "BoolFlag" =>
                      \A v \in RawValues :
                          LET forms == {<<Dash(f.name), v>>, <<DashEq(f.name, v)>>,
                                        <<DashDashEq(f.name, v)>>}
                          IN  Args \in forms =>
                                  /\ \A a \in forms : OutcomeOf(a) = ActualOutcome
                                  /\ pc = "parsed" =>
                                        f.value = SetValue(FlagsBefore[k],
                                                           Convert(f.type, PyStr(v)).val).value
                /\ (f.cls = "BoolFlag" /\ Args = <<Bare(f.name)>> /\ pc = "parsed") =>
                      f.value = SetValue(FlagsBefore[k],
                                         Convert(f.type, PyBool(TRUE)).val).value

(***************************************************************************)
(* C5: whenever the process has ended in a failure, it wrote the message   *)
(* on the diagnostic stream, then the usage text of every registered flag  *)
(* in registration order, then exited with a non-zero status.              *)
(***************************************************************************)
C5_FailureShowsUsage ==
    pc \notin {"startup", "parsed"} =>
        /\ Len(out) = 3
        /\ out[1].ev = "stderr"
        /\ out[2] = print_defaults(flags_registered)
        /\ out[3].ev = "exit" /\ out[3].what # "0"

(***************************************************************************)
(* C6: a single-dash token without '=' that is the last token makes        *)
(* parse() fail with the InvalidFormat/MissingValue usage error.           *)
(***************************************************************************)
C6_MissingValueIsUsageError ==
    (Stopped /\ StopPos = Len(Args) /\ TakesNext(StopTok)) =>
        /\ pc = "exited"
        /\ ErrKind \in {"InvalidFormat", "MissingValue"}
        /\ out[Len(out) - 1].ev = "usage"

(***************************************************************************)
(* C7: a token is split at its first '=' only: parsing the single token    *)
(* -s=... for a registered string flag s stores everything after the       *)
(* first '=', further '=' included.                                        *)
(***************************************************************************)
C7_SplitAtFirstEq ==
    (ParseRan /\ Len(Args) = 1 /\ Contains(Args[1], "=") /\ StartsWith(Args[1], <<"-">>)
        /\ Registered(flags_registered, Resolves(Args[1]))
        /\ Lookup(flags_registered, Resolves(Args[1])).cls = "StrFlag") =>
        /\ pc # "crashed"
        /\ Len(assigns) = 1
        /\ assigns[1].raw = PyStr(AfterEq(Args[1]))
        /\ Lookup(flags_registered, Resolves(Args[1])).value = PyStr(AfterEq(Args[1]))

(***************************************************************************)
(* C8: a token in flag position that does not begin with '-' assigns no    *)
(* flag and makes parse() fail with InvalidFormat naming that token,       *)
(* whether or not it contains '='.                                         *)
(***************************************************************************)
C8_NoDashIsInvalidFormat ==
    ParseRan =>
        /\ \A k \in AssignIndexes : StartsWith(assigns[k].token, <<"-">>)
        /\ (Stopped /\ ~StartsWith(StopTok, <<"-">>)) =>
              /\ ErrKind = "InvalidFormat"
              /\ ErrArg = StopTok

(***************************************************************************)
(* C9: a non-boolean flag is assigned, and counted as provided, only from  *)
(* a raw string taken from the argument list, never by a bare --name.      *)
(***************************************************************************)
C9_TypedFlagsTakeRawStrings ==
    ParseRan =>
        /\ \A k \in AssignIndexes :
              ~IsBool(assigns[k].name) =>
                  /\ assigns[k].raw.t = "str"
                  /\ assigns[k].token # Bare(assigns[k].name)
        /\ \A j \in 1..Len(flags_provided) :
              ~IsBool(flags_provided[j]) =>
                  \E k \in AssignIndexes : /\ assigns[k].name = flags_provided[j]
                                           /\ assigns[k].raw.t = "str"

(***************************************************************************)
(* C10 as stated: when parse() succeeds, no flag was assigned by more      *)
(* than one token.                                                         *)
(***************************************************************************)
C10_AtMostOnce ==
    pc = "parsed" =>
        \A j, k \in AssignIndexes : j # k => assigns[j].name # assigns[k].name

(***************************************************************************)
(* C10 amended: when parse() succeeds, each flag was assigned exactly once *)
(* for each token in flag position that resolves to it, in the order of    *)
(* the tokens, and holds the value of the last of them; a flag named by    *)
(* one token is assigned once, one named twice is assigned twice.          *)
(***************************************************************************)
AssignsTo(nm) == {k \in AssignIndexes : assigns[k].name = nm}
TokensFor(nm) == {p \in FlagPositions : Resolves(Args[p]) = nm}

C10_OncePerToken ==
    pc = "parsed" =>
        /\ \A j, k \in AssignIndexes : j < k => assigns[j].pos < assigns[k].pos
        /\ \A i \in FlagIndexes :
              LET nm == flags_registered[i].name
              IN  /\ Cardinality(AssignsTo(nm)) = Cardinality(TokensFor(nm))
                  /\ {assigns[k].pos : k \in AssignsTo(nm)} = TokensFor(nm)
                  /\ AssignsTo(nm) # {} =>
                        flags_registered[i].value =
                            assigns[CHOOSE k \in AssignsTo(nm) :
                                        \A j \in AssignsTo(nm) : j <= k].value

\* parse() returned after assigning the same flag twice
C10_Witness ==
    /\ pc = "parsed"
    /\ \E j, k \in AssignIndexes : j < k /\ assigns[j].name = assigns[k].name

(***************************************************************************)
(* C11: flag names are unique in every reachable state; a construction     *)
(* that reports DuplicateFlag names a flag that was registered already and *)
(* leaves the registry (the name still bound to the first flag) and the    *)
(* unsatisfied mandatory flags as they were; a construction that registers *)
(* a flag registers a name that was free.                                  *)
(***************************************************************************)
UniqueNames ==
    \A j, k \in FlagIndexes :
        flags_registered[j].name = flags_registered[k].name => j = k

\* the step is a constructor call that ended with this error
ConstructionFailed(what) ==
    /\ pc = "startup"
    /\ pc' = "exited"
    /\ out'[Len(out') - 2].what = what

DuplicateStep ==
    /\ ConstructionFailed("DuplicateFlag") =>
          /\ Registered(flags_registered, out'[Len(out') - 2].arg)
          /\ flags_registered' = flags_registered
          /\ unsatisfied_mandatory' = unsatisfied_mandatory
    /\ Len(flags_registered') > Len(flags_registered) =>
          /\ ~Registered(flags_registered,
                         flags_registered'[Len(flags_registered')].name)
          /\ SubSeq(flags_registered', 1, Len(flags_registered)) = flags_registered

C11_DuplicateRejected == []UniqueNames /\ [][DuplicateStep]_vars

\* a second flag of a registered mandatory flag's name was refused
C11_Witness ==
    /\ pc = "exited"
    /\ ErrKind = "DuplicateFlag"
    /\ Registered(flags_registered, ErrArg)
    /\ unsatisfied_mandatory = <<ErrArg>>

(***************************************************************************)
(* C12: a registered flag that no token in flag position resolves to holds *)
(* its default, and is_default is true of it: registering other flags and  *)
(* parsing tokens that name other flags leave the three as they were at    *)
(* construction.                                                           *)
(***************************************************************************)
Untouched(nm) == \A p \in FlagPositions : Resolves(Args[p]) # nm

C12_DefaultUntilNamed ==
    \A k \in FlagIndexes :
        Untouched(flags_registered[k].name) =>
            /\ flags_registered[k].value = flags_registered[k].default
            /\ is_default(flags_registered[k])

(***************************************************************************)
(* C13: for every registered IntFlag, at its default or after parse()      *)
(* assigned it, and every integer v of -MaxCmp..MaxCmp, the six            *)
(* comparisons of the flag with v give what the comparison of the flag's   *)
(* integer value with v gives; == and != are complementary and exactly one *)
(* of <, ==, > holds.                                                      *)
(***************************************************************************)
CmpValues == (0 - MaxCmp)..MaxCmp

\* the integer a flag's value stands for
IntValue(f) == IF f.value.t \in {"int", "bool"} THEN f.value.i ELSE 0

\* the six results of comparing flag f with o
Comparisons(f, o) ==
    [eq |-> IntFlag_eq(f, o), ne |-> IntFlag_ne(f, o), lt |-> IntFlag_lt(f, o),
     le |-> IntFlag_le(f, o), gt |-> IntFlag_gt(f, o), ge |-> IntFlag_ge(f, o)]

C13_IntComparisons ==
    \A k \in FlagIndexes :
        flags_registered[k].cls = "IntFlag" =>
            /\ flags_registered[k].value.t = "int"
            /\ \A v \in CmpValues :
                   \A x \in {IntValue(flags_registered[k])} :
                   \A r \in {Comparisons(flags_registered[k], PyInt(v))} :
                       /\ r.eq <=> (x = v)
                       /\ r.ne <=> (x # v)
                       /\ r.lt <=> (x < v)
                       /\ r.le <=> (x <= v)
                       /\ r.gt <=> (x > v)
                       /\ r.ge <=> (x >= v)
                       /\ r.eq <=> ~r.ne
                       /\ \/ r.lt /\ ~r.eq /\ ~r.gt
                          \/ ~r.lt /\ r.eq /\ ~r.gt
                          \/ ~r.lt /\ ~r.eq /\ r.gt

\* parse() gave an IntFlag a value other than its default, and the range
\* holds integers below it, equal to it and above it
C13_Witness ==
    /\ pc = "parsed"
    /\ \E k \in FlagIndexes :
           LET f == flags_registered[k]
           IN  /\ f.cls = "IntFlag"
               /\ ~is_default(f)
               /\ \E u, v, w \in CmpValues :
                      /\ IntFlag_gt(f, PyInt(u))
                      /\ IntFlag_eq(f, PyInt(v))
                      /\ IntFlag_lt(f, PyInt(w))

(***************************************************************************)
(* C14: a token whose raw value the flag's type cannot be made from ends   *)
(* parse() with ConversionFailure naming the flag, the flag keeps the      *)
(* value it had and the name is not recorded as provided; a raw value that *)
(* converts replaces the flag's value with the converted value and records *)
(* the name.                                                               *)
(***************************************************************************)
\* the last assignment to a flag during parse(), 0 when there is none
LastAssign(nm) ==
    LET S == {k \in AssignIndexes : assigns[k].name = nm}
    IN  IF S = {} THEN 0 ELSE CHOOSE k \in S : \A j \in S : j <= k

\* the value the assignments leave a flag with
AssignedValue(f) ==
    IF LastAssign(f.name) = 0 THEN f.default ELSE assigns[LastAssign(f.name)].value

\* the raw value parse() read for the token it stopped at
StopRaw == ReadToken(StopTok, SubSeq(Args, StopPos + 1, Len(Args))).value

StopConverts == Convert(Lookup(flags_registered, Resolves(StopTok)).type, StopRaw).ok

C14_ConversionFailure ==
    ParseRan =>
        /\ \A k \in AssignIndexes :
              \A conv \in {Convert(Lookup(flags_registered, assigns[k].name).type,
                                   assigns[k].raw)} :
                  conv.ok /\ assigns[k].value = conv.val
        /\ \A k \in FlagIndexes :
              flags_registered[k].value = AssignedValue(flags_registered[k])
        /\ flags_provided = [k \in AssignIndexes |-> assigns[k].name]
        /\ ErrKind = "ConversionFailure" =>
              StopTokResolved /\ ErrArg = Resolves(StopTok) /\ ~StopConverts
        /\ (StopTokResolved /\ ~StopConverts) => ErrKind = "ConversionFailure"

\* parse() assigned a flag and then failed to convert a second value for it
C14_Witness ==
    /\ pc = "exited"
    /\ ErrKind = "ConversionFailure"
    /\ LastAssign(ErrArg) # 0
    /\ ~is_default(Lookup(flags_registered, ErrArg))
    /\ flags_provided = <<ErrArg>>

(***************************************************************************)
(* C15: a boolean flag is never mandatory and starts false; when parse()   *)
(* returns, it is true if the bare token --name is in the argument list    *)
(* and false if no token resolves to it; MissingMandatoryFlag never names  *)
(* a boolean flag.                                                         *)
(***************************************************************************)
C15_BoolTrueIffBare ==
    \A k \in FlagIndexes :
        LET b == flags_registered[k]
        IN  b.cls = "BoolFlag" =>
                /\ ~b.mandatory
                /\ b.default = PyBool(FALSE)
                /\ ErrKind = "MissingMandatoryFlag" => ErrArg # b.name
                /\ pc = "parsed" =>
                      /\ (\E p \in 1..Len(Args) : Args[p] = Bare(b.name))
                             => b.value = PyBool(TRUE)
                      /\ ~NamedByToken(b.name) => b.value = PyBool(FALSE)

(***************************************************************************)
(* C16: MissingMandatoryFlag names the mandatory flag registered earliest  *)
(* among those no token resolved to, whatever the order in which the other *)
(* flags were given.                                                       *)
(***************************************************************************)
Unsatisfied ==
    {k \in FlagIndexes : flags_registered[k].mandatory
                         /\ Untouched(flags_registered[k].name)}

C16_EarliestUnsatisfied ==
    ErrKind = "MissingMandatoryFlag" =>
        /\ Unsatisfied # {}
        /\ \E k \in Unsatisfied :
               /\ \A j \in Unsatisfied : k <= j
               /\ ErrArg = flags_registered[k].name

\* two mandatory flags were left unsatisfied, and one was named
C16_Witness ==
    /\ ErrKind = "MissingMandatoryFlag"
    /\ Cardinality(Unsatisfied) >= 2

(***************************************************************************)
(* C17: the name parse() looks up is the token's text before '=' with      *)
(* every '-' removed, leading or interior, so tokens that differ only in   *)
(* dashes reach the same flag; a token read without error whose name is    *)
(* not registered ends parse() with UnknownFlag naming it, and that token  *)
(* changes no flag's value.                                                *)
(***************************************************************************)
\* the token parse() stopped at was split and given a value
StopTokRead ==
    /\ Stopped
    /\ ReadToken(StopTok, SubSeq(Args, StopPos + 1, Len(Args))).how = "ok"

C17_DashesStripped ==
    ParseRan =>
        /\ \A k \in AssignIndexes :
              /\ assigns[k].name = Resolves(assigns[k].token)
              /\ ~Contains(assigns[k].name, "-")
              /\ Registered(flags_registered, assigns[k].name)
        /\ ErrKind = "UnknownFlag" =>
              /\ StopTokRead
              /\ ErrArg = Resolves(StopTok)
              /\ ~Registered(flags_registered, ErrArg)
        /\ (StopTokRead /\ ~Registered(flags_registered, Resolves(StopTok))) =>
              /\ ErrKind = "UnknownFlag"
              /\ \A k \in FlagIndexes :
                     flags_registered[k].value = AssignedValue(flags_registered[k])

\* after a token with two dashes assigned n, a token with an interior dash
\* was looked up without it and found unknown, next to the flag a-b
C17_Witness ==
    /\ ErrKind = "UnknownFlag"
    /\ ErrArg = <<"a", "b">>
    /\ Registered(flags_registered, <<"a", "-", "b">>)
    /\ \E k \in AssignIndexes : StartsWith(assigns[k].token, <<"-", "-">>)

(***************************************************************************)
(* C18: for an argument list made of flag groups (a -n v pair, a -n=v or   *)
(* --n=v token, a --b token) that name each flag at most once, parse()     *)
(* succeeds on every reordering of the groups or on none, and where it     *)
(* succeeds every flag ends with the same value. C18_AnyOrder is the       *)
(* statement without the restriction to successful passes.                 *)
(***************************************************************************)
\* the groups of an argument list: a token that takes the next token forms
\* a pair with it
RECURSIVE GroupsFrom(_, _)
GroupsFrom(args, p) ==
    IF p > Len(args) THEN <<>>
    ELSE IF TakesNext(args[p]) /\ p < Len(args)
    THEN <<SubSeq(args, p, p + 1)>> \o GroupsFrom(args, p + 2)
    ELSE <<SubSeq(args, p, p)>> \o GroupsFrom(args, p + 1)
Groups == GroupsFrom(Args, 1)

\* every group has one of the forms, and no name is given twice
WellGroupedAs(G) ==
    /\ \A g \in 1..Len(G) :
          /\ StartsWith(G[g][1], <<"-">>)
          /\ TakesNext(G[g][1]) => Len(G[g]) = 2
    /\ \A g, h \in 1..Len(G) :
          Resolves(G[g][1]) = Resolves(G[h][1]) => g = h
WellGrouped == WellGroupedAs(Groups)

\* the orders n groups can be given in
Orders(n) == {o \in [1..n -> 1..n] : \A g, h \in 1..n : o[g] = o[h] => g = h}

\* the argument list of the groups G in order o
RECURSIVE Flatten(_, _, _)
Flatten(G, o, g) ==
    IF g > Len(G) THEN <<>> ELSE G[o[g]] \o Flatten(G, o, g + 1)

C18_AnyOrder ==
    ParseRan =>
        \A G \in {Groups} :
            WellGroupedAs(G) =>
                \A o \in Orders(Len(G)) :
                    \A r \in {OutcomeOf(Flatten(G, o, 1))} :
                        /\ (r.end = "parsed") <=> (pc = "parsed")
                        /\ r.values = ActualOutcome.values

C18_OrderIndependentSuccess ==
    ParseRan =>
        \A G \in {Groups} :
            WellGroupedAs(G) =>
                \A o \in Orders(Len(G)) :
                    \A r \in {OutcomeOf(Flatten(G, o, 1))} :
                        /\ (r.end = "parsed") <=> (pc = "parsed")
                        /\ pc = "parsed" => r.values = ActualOutcome.values

\* parse() returned after two groups assigned two flags
C18_Witness ==
    /\ pc = "parsed"
    /\ WellGrouped
    /\ Len(Groups) = 2
    /\ \A k \in FlagIndexes : LastAssign(flags_registered[k].name) # 0
    /\ \E o \in Orders(Len(Groups)) : Flatten(Groups, o, 1) # Args

(***************************************************************************)
(* C19: a constructor call that reports TypeMismatch or                    *)
(* AmbiguousPlaceholder leaves the registry and the unsatisfied mandatory  *)
(* flags exactly as they were, a call that registers a flag reports no     *)
(* error, and no registered flag has a default of another type than its    *)
(* own.                                                                    *)
(***************************************************************************)
DefaultsChecked ==
    \A k \in FlagIndexes :
        \/ flags_registered[k].default.t = flags_registered[k].type
        \/ flags_registered[k].default.t = "bool" /\ flags_registered[k].type = "int"

FailedConstructionStep ==
    /\ (ConstructionFailed("TypeMismatch") \/ ConstructionFailed("AmbiguousPlaceholder")) =>
          /\ flags_registered' = flags_registered
          /\ unsatisfied_mandatory' = unsatisfied_mandatory
    /\ Len(flags_registered') > Len(flags_registered) =>
          /\ out' = out
          /\ pc' = "startup"

C19_FailedNeverRegistered == []DefaultsChecked /\ [][FailedConstructionStep]_vars

\* a call for a name that is registered, and mandatory, failed its type
\* check: the check ran before the registration was tried
C19_Witness ==
    /\ pc = "exited"
    /\ ErrKind = "TypeMismatch"
    /\ Registered(flags_registered, ErrArg)
    /\ unsatisfied_mandatory = <<ErrArg>>
    /\ Len(flags_registered) = 1

(***************************************************************************)
(* C20: in every reachable state each unsatisfied mandatory name is the    *)
(* name of a registered flag that is mandatory and not boolean, and is     *)
(* listed once; parse() only removes names from the unsatisfied mandatory  *)
(* flags, and leaves the registry with the same flags, in the same order,  *)
(* with the same defaults: it changes nothing but values.                  *)
(***************************************************************************)
PendingRegistered ==
    /\ \A u \in 1..Len(unsatisfied_mandatory) :
          /\ Registered(flags_registered, unsatisfied_mandatory[u])
          /\ Lookup(flags_registered, unsatisfied_mandatory[u]).mandatory
          /\ Lookup(flags_registered, unsatisfied_mandatory[u]).cls # "BoolFlag"
    /\ \A u, w \in 1..Len(unsatisfied_mandatory) :
          unsatisfied_mandatory[u] = unsatisfied_mandatory[w] => u = w

\* s is t with some entries removed
Remains(s, t) == s = SelectSeq(t, LAMBDA nm : \E u \in 1..Len(s) : s[u] = nm)

ParseKeepsRegistry ==
    (pc = "startup" /\ ParseRan') =>
        /\ Remains(unsatisfied_mandatory', unsatisfied_mandatory)
        /\ Len(flags_registered') = Len(flags_registered)
        /\ \A k \in FlagIndexes :
              flags_registered'[k] =
                  [flags_registered[k] EXCEPT !.value = flags_registered'[k].value]

C20_PendingSubset == []PendingRegistered /\ [][ParseKeepsRegistry]_vars

\* parse() satisfied one of two mandatory flags and left the other
C20_Witness ==
    /\ ErrKind = "MissingMandatoryFlag"
    /\ Len(unsatisfied_mandatory) = 1
    /\ Len(flags_registered) = 2
    /\ \A k \in FlagIndexes : flags_registered[k].mandatory
    /\ \E k \in FlagIndexes : ~is_default(flags_registered[k])

====
